---- MODULE Spec2Model ----
(***************************************************************************)
(* Model of optuna_pso/hyperparameter_tuning.py: the objective function    *)
(* that launches the PSO jar and extracts a fitness from its output, and   *)
(* the __main__ script that runs an Optuna study over it and saves the     *)
(* best trial.                                                             *)
(*                                                                         *)
(* Text is a sequence of one-character strings.  A float is a record       *)
(* [k, m, e]: k = "num" stands for m * 10^e (m an integer not divisible by  *)
(* 10, or m = 0 and e = 0), k = "inf" for +infinity, k = "ninf" for        *)
(* -infinity.                                                              *)
(***************************************************************************)
EXTENDS Integers, Sequences, FiniteSets, TLC

(***************************************************************************)
(* Bounds of the model.                                                    *)
(***************************************************************************)
\* total number of characters on stdout and stderr of one explored process
MaxLen == 3
\* n_trials of study.optimize: 100 in the script, scaled down here
NTrials == 3

(***************************************************************************)
(* Characters.                                                             *)
(***************************************************************************)
DigitChars == {"0", "1", "2", "3", "4", "5", "6", "7", "8", "9"}
SignChars == {"-", "+"}
ExpChars == {"e", "E"}
SpaceChars == {" ", "\t"}
NewLine == "\n"

\* the characters the explored process outputs are built from
Chars == {"0", "1", ".", "-", "+", "e", "x", " ", NewLine}

DigitVal(c) ==
  CASE c = "0" -> 0 [] c = "1" -> 1 [] c = "2" -> 2 [] c = "3" -> 3
    [] c = "4" -> 4 [] c = "5" -> 5 [] c = "6" -> 6 [] c = "7" -> 7
    [] c = "8" -> 8 [] c = "9" -> 9

\* s[i], or "" past the end of s
CharAt(s, i) == IF i >= 1 /\ i <= Len(s) THEN s[i] ELSE ""

(***************************************************************************)
(* str.splitlines and str.strip.                                           *)
(***************************************************************************)
RECURSIVE FirstNewLine(_, _)
\* index of the first line break of s at or after i, 0 when there is none
FirstNewLine(s, i) ==
  IF i > Len(s) THEN 0
  ELSE IF s[i] = NewLine THEN i
  ELSE FirstNewLine(s, i + 1)

RECURSIVE SplitLines(_)
SplitLines(s) ==
  IF s = <<>> THEN <<>>
  ELSE LET i == FirstNewLine(s, 1)
       IN IF i = 0 THEN <<s>>
          ELSE <<SubSeq(s, 1, i - 1)>> \o SplitLines(SubSeq(s, i + 1, Len(s)))

IsSpace(c) == c \in SpaceChars \/ c = NewLine

RECURSIVE LStrip(_)
LStrip(s) ==
  IF s # <<>> /\ IsSpace(Head(s)) THEN LStrip(Tail(s)) ELSE s

RECURSIVE RStrip(_)
RStrip(s) ==
  IF s # <<>> /\ IsSpace(s[Len(s)]) THEN RStrip(SubSeq(s, 1, Len(s) - 1)) ELSE s

Strip(s) == RStrip(LStrip(s))

(***************************************************************************)
(* combined and lines of objective.                                        *)
(***************************************************************************)
\* Combined with the fault of putting stderr first
CombinedStderrFirst(stdout, stderr) == stderr \o <<NewLine>> \o stdout

\* "\n".join([stdout, stderr])
Combined(stdout, stderr) == stdout \o <<NewLine>> \o stderr

RECURSIVE StripNonEmpty(_)
\* [line.strip() for line in ls if line.strip()]
StripNonEmpty(ls) ==
  IF ls = <<>> THEN <<>>
  ELSE LET t == Strip(Head(ls))
       IN IF t # <<>> THEN <<t>> \o StripNonEmpty(Tail(ls))
          ELSE StripNonEmpty(Tail(ls))

Lines(combined) == StripNonEmpty(SplitLines(combined))

(***************************************************************************)
(* re.search(r'[-+]?\d*\.?\d+(?:[eE][-+]?\d+)?', last_line): the leftmost  *)
(* start at which the pattern matches, and at that start the first match   *)
(* in the backtracking order (every quantifier greedy).  A match is        *)
(* [start, end], end exclusive; NoMatch is [start |-> 0, end |-> 0].       *)
(***************************************************************************)
NoMatch == [start |-> 0, end |-> 0]

RECURSIVE DigitsRun(_, _)
\* number of consecutive digits of s from position i on
DigitsRun(s, i) ==
  IF CharAt(s, i) \in DigitChars THEN 1 + DigitsRun(s, i + 1) ELSE 0

RECURSIVE NumberEnd(_, _, _)
\* \d*\.?\d+ from position j with \d* taking t digits: the end of the first
\* match with \d* taking t digits or fewer, 0 when there is none
NumberEnd(s, j, t) ==
  LET p == j + t
      withDot == IF CharAt(s, p) = "." THEN DigitsRun(s, p + 1) ELSE 0
      noDot == DigitsRun(s, p)
  IN IF withDot >= 1 THEN p + 1 + withDot
     ELSE IF noDot >= 1 THEN p + noDot
     ELSE IF t = 0 THEN 0
     ELSE NumberEnd(s, j, t - 1)

\* (?:[eE][-+]?\d+)? from position p: the end of the match
ExponentEnd(s, p) ==
  IF CharAt(s, p) \in ExpChars
  THEN LET signed == IF CharAt(s, p + 1) \in SignChars
                     THEN DigitsRun(s, p + 2) ELSE 0
           unsigned == DigitsRun(s, p + 1)
       IN IF signed >= 1 THEN p + 2 + signed
          ELSE IF unsigned >= 1 THEN p + 1 + unsigned
          ELSE p
  ELSE p

\* MatchAt with the fault of a pattern without its leading [-+]?
MatchAtUnsigned(s, i) ==
  IF NumberEnd(s, i, DigitsRun(s, i)) = 0 THEN 0
  ELSE ExponentEnd(s, NumberEnd(s, i, DigitsRun(s, i)))

\* the pattern from position i: the end of the match, 0 when there is none
MatchAt(s, i) ==
  LET signedEnd == IF CharAt(s, i) \in SignChars
                   THEN NumberEnd(s, i + 1, DigitsRun(s, i + 1)) ELSE 0
      plainEnd == NumberEnd(s, i, DigitsRun(s, i))
      numEnd == IF signedEnd # 0 THEN signedEnd ELSE plainEnd
  IN IF numEnd = 0 THEN 0 ELSE ExponentEnd(s, numEnd)

RECURSIVE SearchFrom(_, _)
SearchFrom(s, i) ==
  IF i > Len(s) THEN NoMatch
  ELSE IF MatchAt(s, i) # 0 THEN [start |-> i, end |-> MatchAt(s, i)]
  ELSE SearchFrom(s, i + 1)

ReSearch(s) == SearchFrom(s, 1)

\* m.group(0)
Group0(s, m) == SubSeq(s, m.start, m.end - 1)

(***************************************************************************)
(* float(m.group(0)).                                                      *)
(***************************************************************************)
\* largest and smallest decimal exponent of a finite non-zero double
FloatMaxExp10 == 308
FloatMinExp10 == -324

Inf == [k |-> "inf", m |-> 0, e |-> 0]
NegInf == [k |-> "ninf", m |-> 0, e |-> 0]
Num(m, e) == [k |-> "num", m |-> m, e |-> e]

RECURSIVE DigitsValue(_, _, _)
\* the number written by the n digits of s that end at position last
DigitsValue(s, last, n) ==
  IF n = 0 THEN 0
  ELSE 10 * DigitsValue(s, last - 1, n - 1) + DigitVal(s[last])

RECURSIVE NumDigits(_)
NumDigits(n) == IF n < 10 THEN 1 ELSE 1 + NumDigits(n \div 10)

RECURSIVE Pow10(_)
Pow10(n) == IF n = 0 THEN 1 ELSE 10 * Pow10(n - 1)

RECURSIVE Normalize(_, _)
\* m * 10^e with the trailing zeros of m moved into e
Normalize(m, e) ==
  IF m = 0 THEN Num(0, 0)
  ELSE IF m % 10 = 0 THEN Normalize(m \div 10, e + 1)
  ELSE Num(m, e)

\* the decimal exponent of the leading digit of a non-zero number
MagExp(x) == NumDigits(IF x.m < 0 THEN -x.m ELSE x.m) + x.e - 1

\* the first two digits of n > 0
LeadingTwo(n) ==
  IF n < 10 THEN 10 * n ELSE n \div Pow10(NumDigits(n) - 2)

\* the parts of a float literal: sign, integer digits, fraction, exponent
FloatParts(tok) ==
  LET b == IF CharAt(tok, 1) \in SignChars THEN 2 ELSE 1
      nInt == DigitsRun(tok, b)
      hasDot == CharAt(tok, b + nInt) = "."
      nFrac == IF hasDot THEN DigitsRun(tok, b + nInt + 1) ELSE 0
      mantEnd == b + nInt + (IF hasDot THEN 1 + nFrac ELSE 0)
      hasExp == CharAt(tok, mantEnd) \in ExpChars
      expSigned == hasExp /\ CharAt(tok, mantEnd + 1) \in SignChars
      expStart == mantEnd + 1 + (IF expSigned THEN 1 ELSE 0)
      nExp == IF hasExp THEN DigitsRun(tok, expStart) ELSE 0
  IN [neg |-> CharAt(tok, 1) = "-",
      nInt |-> nInt, nFrac |-> nFrac,
      intLast |-> b + nInt - 1,
      fracLast |-> b + nInt + nFrac,
      hasExp |-> hasExp,
      expNeg |-> hasExp /\ CharAt(tok, mantEnd + 1) = "-",
      nExp |-> nExp,
      expLast |-> expStart + nExp - 1,
      end |-> IF hasExp THEN expStart + nExp ELSE mantEnd]

\* float(tok) raises ValueError unless tok is a float literal; p is
\* FloatParts(tok)
PartsValid(tok, p) ==
  /\ p.nInt + p.nFrac >= 1
  /\ p.hasExp => p.nExp >= 1
  /\ p.end = Len(tok) + 1

FloatValid(tok) == PartsValid(tok, FloatParts(tok))

\* v or -v, +-infinity past the largest double, zero under the smallest
Rounded(neg, v, mag) ==
  IF v.m = 0 THEN Num(0, 0)
  ELSE IF mag > FloatMaxExp10 \/ (mag = FloatMaxExp10 /\ LeadingTwo(v.m) >= 18)
  THEN (IF neg THEN NegInf ELSE Inf)
  ELSE IF mag < FloatMinExp10 THEN Num(0, 0)
  ELSE IF neg THEN Num(-v.m, v.e) ELSE v

Signed(neg, v) == Rounded(neg, v, MagExp(v))

\* the value of the float literal tok with parts p
PartsValue(tok, p) ==
  Signed(p.neg,
         Normalize(DigitsValue(tok, p.intLast, p.nInt) * Pow10(p.nFrac)
                     + DigitsValue(tok, p.fracLast, p.nFrac),
                   (IF p.expNeg THEN -1 ELSE 1)
                     * DigitsValue(tok, p.expLast, p.nExp) - p.nFrac))

ParseFloat(tok) == PartsValue(tok, FloatParts(tok))

\* x < y on floats
PosLess(x, y) ==
  \/ MagExp(x) < MagExp(y)
  \/ /\ MagExp(x) = MagExp(y)
     /\ LET dx == NumDigits(x.m)
            dy == NumDigits(y.m)
            d == IF dx > dy THEN dx ELSE dy
        IN x.m * Pow10(d - dx) < y.m * Pow10(d - dy)

NumLess(x, y) ==
  IF x.m <= 0 \/ y.m <= 0 THEN
    IF x.m > 0 THEN FALSE
    ELSE IF y.m > 0 THEN TRUE
    ELSE IF x.m = 0 \/ y.m = 0 THEN x.m < y.m
    ELSE PosLess(Num(-y.m, y.e), Num(-x.m, x.e))
  ELSE PosLess(x, y)

FloatLess(x, y) ==
  IF x.k = "ninf" THEN y.k # "ninf"
  ELSE IF x.k = "inf" THEN FALSE
  ELSE IF y.k = "inf" THEN TRUE
  ELSE IF y.k = "ninf" THEN FALSE
  ELSE NumLess(x, y)

IsFinite(x) == x.k = "num"

(***************************************************************************)
(* The trial's parameters (trial.suggest_int / trial.suggest_float); the   *)
(* three real-valued ones are in tenths.                                   *)
(***************************************************************************)
SwarmSizeLow == 10
SwarmSizeHigh == 100
MaxItersHigh == 1000
TenthsLow == 1
CsHigh == 30

ParamVectors ==
  [swarmSize : {SwarmSizeLow, SwarmSizeHigh},
   maxIters : {MaxItersHigh},
   inertias : {TenthsLow},
   c1s : {CsHigh},
   c2s : {TenthsLow}]

NoParams ==
  [swarmSize |-> 0, maxIters |-> 0, inertias |-> 0, c1s |-> 0, c2s |-> 0]

(***************************************************************************)
(* What subprocess.run(cmd, capture_output=True, text=True, timeout=300)   *)
(* does: it returns a CompletedProcess, or raises.                         *)
(***************************************************************************)
Completed(rc, out, err) ==
  [kind |-> "completed", returncode |-> rc, stdout |-> out, stderr |-> err]

Raised(exc) ==
  [kind |-> exc, returncode |-> 0, stdout |-> <<>>, stderr |-> <<>>]

\* the process exceeded the timeout; java is not on the PATH
TimeoutExpired == "TimeoutExpired"
FileNotFoundError == "FileNotFoundError"
\* java is found and is not executable; the output is not valid text
PermissionError == "PermissionError"
UnicodeDecodeError == "UnicodeDecodeError"

RunExceptions ==
  {TimeoutExpired, FileNotFoundError, PermissionError, UnicodeDecodeError}

ReturnCodes == {0, 1}

(***************************************************************************)
(* Log records (logging.warning, logging.error).                           *)
(***************************************************************************)
LogRecord(level, msg, params, code, text, exc) ==
  [level |-> level, msg |-> msg, params |-> params, code |-> code,
   text |-> text, exc |-> exc]

(***************************************************************************)
(* objective(trial).  The result says whether the call returned or raised, *)
(* the value or the exception, the records logged, the number of process   *)
(* launches and whether the output was parsed (lines 41 on).               *)
(***************************************************************************)
Return(value, log, parsed) ==
  [kind |-> "return", value |-> value, exc |-> "", log |-> log,
   launches |-> 1, parsed |-> parsed]

Raise(exc, log, parsed) ==
  [kind |-> "raise", value |-> Inf, exc |-> exc, log |-> log,
   launches |-> 1, parsed |-> parsed]

\* lines 38-39
ExitWarning(result) ==
  IF result.returncode # 0
  THEN <<LogRecord("WARNING", "Jar exited with code", NoParams,
                   result.returncode, Strip(result.stderr), "")>>
  ELSE <<>>

\* lines 53-59, with p the parts of the token
ExtractParts(token, p, log) ==
  IF PartsValid(token, p)
  THEN Return(PartsValue(token, p), log, TRUE)
  ELSE Return(Inf, log \o <<LogRecord("WARNING", "Failed to convert",
                                      NoParams, 0, token, "")>>, TRUE)

ExtractToken(token, log) == ExtractParts(token, FloatParts(token), log)

\* lines 49-51, with m the match in last_line
ExtractMatch(last_line, m, log) ==
  IF m = NoMatch
  THEN Return(Inf, log \o <<LogRecord("WARNING", "No numeric value found",
                                      NoParams, 0, last_line, "")>>, TRUE)
  ELSE ExtractToken(Group0(last_line, m), log)

\* lines 47-48
ExtractLastLine(last_line, log) ==
  ExtractMatch(last_line, ReSearch(last_line), log)

\* ExtractLines with the fault of taking the first non-empty line
ExtractFirstLine(params, lines, log) ==
  IF lines = <<>>
  THEN Return(Inf, log \o <<LogRecord("WARNING", "No output to parse",
                                      params, 0, <<>>, "")>>, TRUE)
  ELSE ExtractLastLine(lines[1], log)

\* lines 43-47
ExtractLines(params, lines, log) ==
  IF lines = <<>>
  THEN Return(Inf, log \o <<LogRecord("WARNING", "No output to parse",
                                      params, 0, <<>>, "")>>, TRUE)
  ELSE ExtractLastLine(lines[Len(lines)], log)

\* lines 41-59
Extract(params, result, log) ==
  ExtractLines(params, Lines(Combined(result.stdout, result.stderr)), log)

\* lines 29-36
OnRunException(params, exc) ==
  IF exc = TimeoutExpired
  THEN Return(Inf, <<LogRecord("WARNING", "Subprocess timed out", params,
                               0, <<>>, "")>>, FALSE)
  ELSE IF exc = FileNotFoundError
  THEN Return(Inf, <<LogRecord("ERROR", "Failed to run subprocess", NoParams,
                               0, <<>>, exc)>>, FALSE)
  ELSE Raise(exc, <<>>, FALSE)

\* Objective with the fault of returning +infinity on a non-zero exit status
ObjectiveShortCircuit(params, run) ==
  IF run.kind # "completed" THEN OnRunException(params, run.kind)
  ELSE IF run.returncode # 0 THEN Return(Inf, ExitWarning(run), FALSE)
  ELSE Extract(params, run, ExitWarning(run))

Objective(params, run) ==
  IF run.kind # "completed" THEN OnRunException(params, run.kind)
  ELSE Extract(params, run, ExitWarning(run))

(***************************************************************************)
(* The processes explored: for one call of objective, every output of     *)
(* MaxLen characters or fewer in all (Texts, cut in stdout and stderr);    *)
(* for the trials of a study, TrialRuns.                                   *)
(***************************************************************************)
RECURSIVE TextsOfLen(_)
TextsOfLen(n) ==
  IF n = 0 THEN {<<>>}
  ELSE {Append(t, c) : t \in TextsOfLen(n - 1), c \in Chars}

Texts(n) == UNION {TextsOfLen(i) : i \in 0..n}

\* "1.5", "x 2", "-1e999", "x" and nothing on stdout; "x" and nothing on stderr
SampleStdout ==
  {<<"1", ".", "5">>, <<"x", " ", "2">>, <<"-", "1", "e", "9", "9", "9">>,
   <<"x">>, <<>>}
SampleStderr == {<<"x">>, <<>>}

TrialRuns ==
  {Raised(exc) : exc \in RunExceptions}
  \cup {Completed(rc, out, err) :
          rc \in ReturnCodes, out \in SampleStdout, err \in SampleStderr}

(***************************************************************************)
(* State.                                                                  *)
(***************************************************************************)
VARIABLES
  pc,            \* where the script is
  jarExists,     \* JAR_PATH.is_file()
  studyCreated,  \* optuna.create_study was called
  trials,        \* study.trials
  best,          \* index in trials of study.best_trial, 0 when there is none
  call,          \* the last call of objective: params, process, result
  calls,         \* number of calls of objective
  launches,      \* number of processes launched
  console,       \* what was printed
  errors,        \* what the script logged with logging.error
  output,        \* the dict of lines 72-77
  file,          \* best_results.json
  exitCode       \* the exit status of the script, -1 while it runs

vars == <<pc, jarExists, studyCreated, trials, best, call, calls, launches,
          console, errors, output, file, exitCode>>

NoRun == [kind |-> "none", returncode |-> 0, stdout |-> <<>>, stderr |-> <<>>]
NoResult ==
  [kind |-> "none", value |-> Inf, exc |-> "", log |-> <<>>, launches |-> 0,
   parsed |-> FALSE]
NoCall == [params |-> NoParams, run |-> NoRun, result |-> NoResult]
NoOutput ==
  [best_params |-> NoParams, best_value |-> Inf, best_trial_number |-> -1,
   direction |-> "NOT_SET"]

\* best_results.json: not there, cut short, or the dict written
FileAbsent == [state |-> "absent", content |-> NoOutput]
FilePartial == [state |-> "partial", content |-> NoOutput]
FileWritten(o) == [state |-> "written", content |-> o]

InitCommon ==
  /\ studyCreated = FALSE
  /\ trials = <<>>
  /\ best = 0
  /\ call = NoCall
  /\ calls = 0
  /\ launches = 0
  /\ console = <<>>
  /\ errors = <<>>
  /\ output = NoOutput
  /\ file = FileAbsent
  /\ exitCode = -1

Init ==
  /\ pc = "start"
  /\ jarExists \in BOOLEAN
  /\ InitCommon

(***************************************************************************)
(* The study (optuna): trials are numbered from 0, a trial whose objective *)
(* returns is COMPLETE with its value, one whose objective raises is FAIL  *)
(* and the exception leaves study.optimize; the best trial is the first    *)
(* COMPLETE trial with the least value.                                    *)
(***************************************************************************)
TrialRecord(number, params, state, value) ==
  [number |-> number, params |-> params, state |-> state, value |-> value]

\* the best trial after trial t is told: a strictly smaller value replaces it
UpdateBest(ts, b, t) ==
  IF t.state # "COMPLETE" THEN b
  ELSE IF b = 0 THEN t.number + 1
  ELSE IF FloatLess(t.value, ts[b].value) THEN t.number + 1
  ELSE b

(***************************************************************************)
(* The script.                                                             *)
(***************************************************************************)
\* CheckJar with the fault of logging the error and going on
CheckJarNoExit ==
  /\ pc = "start"
  /\ errors' = IF jarExists THEN errors ELSE Append(errors, "JAR not found")
  /\ pc' = "create"
  /\ UNCHANGED <<jarExists, studyCreated, trials, best, call, calls, launches,
                 console, output, file, exitCode>>

\* lines 63-65
CheckJar ==
  /\ pc = "start"
  /\ IF jarExists
     THEN /\ pc' = "create"
          /\ UNCHANGED <<errors, exitCode>>
     ELSE /\ errors' = Append(errors, "JAR not found")
          /\ exitCode' = 1
          /\ pc' = "exited"
  /\ UNCHANGED <<jarExists, studyCreated, trials, best, call, calls, launches,
                 console, output, file>>

\* line 67
CreateStudy ==
  /\ pc = "create"
  /\ studyCreated' = TRUE
  /\ pc' = "optimize"
  /\ UNCHANGED <<jarExists, trials, best, call, calls, launches, console,
                 errors, output, file, exitCode>>

\* a call of objective
CallOf(params, run) ==
  [params |-> params, run |-> run, result |-> Objective(params, run)]

\* the trial of the call c of objective
TrialOf(number, c) ==
  TrialRecord(number, c.params,
              IF c.result.kind = "return" THEN "COMPLETE" ELSE "FAIL",
              c.result.value)

\* line 68: one trial of study.optimize(objective, n_trials)
RunTrial ==
  /\ pc = "optimize"
  /\ Len(trials) < NTrials
  /\ \E params \in ParamVectors, run \in TrialRuns :
       call' = CallOf(params, run)
  /\ calls' = calls + 1
  /\ launches' = launches + call'.result.launches
  /\ trials' = Append(trials, TrialOf(Len(trials), call'))
  /\ best' = UpdateBest(trials, best, trials'[Len(trials')])
  /\ IF call'.result.kind = "raise"
     THEN pc' = "crashed" /\ exitCode' = 1
     ELSE /\ pc' = IF Len(trials') = NTrials THEN "report" ELSE "optimize"
          /\ UNCHANGED exitCode
  /\ UNCHANGED <<jarExists, studyCreated, console, errors, output, file>>

\* lines 70-77
Report ==
  /\ pc = "report"
  /\ IF best = 0
     THEN /\ pc' = "crashed"
          /\ exitCode' = 1
          /\ UNCHANGED <<console, output>>
     ELSE /\ console' = Append(console, [text |-> "Best hyperparameters:",
                                         params |-> trials[best].params])
          /\ output' = [best_params |-> trials[best].params,
                        best_value |-> trials[best].value,
                        best_trial_number |-> trials[best].number,
                        direction |-> "MINIMIZE"]
          /\ pc' = "save"
          /\ UNCHANGED exitCode
  /\ UNCHANGED <<jarExists, studyCreated, trials, best, call, calls, launches,
                 errors, file>>

\* what open and json.dump do: the file is written; open raises OSError;
\* a write or the close raises OSError
WriteOutcomes == {"written", "open fails", "write fails"}

\* SaveResults with the fault of not catching the OSError
SaveResultsUncaught ==
  /\ pc = "save"
  /\ \E w \in {"written", "open fails", "write fails"} :
       IF w = "written"
       THEN /\ file' = [state |-> "written", content |-> output]
            /\ console' = Append(console, [text |-> "Saved best results",
                                           params |-> NoParams])
            /\ pc' = "final"
            /\ UNCHANGED exitCode
       ELSE /\ file' = IF w = "open fails" THEN file
                       ELSE [state |-> "partial", content |-> NoOutput]
            /\ pc' = "crashed"
            /\ exitCode' = 1
            /\ UNCHANGED console
  /\ UNCHANGED <<jarExists, studyCreated, trials, best, call, calls, launches,
                 errors, output>>

\* lines 79-85
SaveResults ==
  /\ pc = "save"
  /\ \E w \in WriteOutcomes :
       IF w = "written"
       THEN /\ file' = FileWritten(output)
            /\ console' = Append(console, [text |-> "Saved best results",
                                           params |-> NoParams])
            /\ UNCHANGED errors
       ELSE /\ file' = IF w = "open fails" THEN file ELSE FilePartial
            /\ errors' = Append(errors, "Failed to write best results")
            /\ UNCHANGED console
  /\ pc' = "final"
  /\ UNCHANGED <<jarExists, studyCreated, trials, best, call, calls, launches,
                 output, exitCode>>

\* line 87 and the end of the script
FinalPrint ==
  /\ pc = "final"
  /\ console' = Append(console, [text |-> "Best hyperparameters:",
                                 params |-> trials[best].params])
  /\ exitCode' = 0
  /\ pc' = "done"
  /\ UNCHANGED <<jarExists, studyCreated, trials, best, call, calls, launches,
                 errors, output, file>>

Next ==
  \/ CheckJar
  \/ CreateStudy
  \/ RunTrial
  \/ Report
  \/ SaveResults
  \/ FinalPrint

Spec == Init /\ [][Next]_vars

(***************************************************************************)
(* One call of objective on any process of ObjectiveRuns.                  *)
(***************************************************************************)
InitObjective ==
  /\ pc = "objective"
  /\ jarExists = TRUE
  /\ InitCommon

\* the process completes with text[1..k] on stdout and the rest on stderr
CompletedWith(rc, text, k) ==
  Completed(rc, SubSeq(text, 1, k), SubSeq(text, k + 1, Len(text)))

ObjectiveParams == CHOOSE p \in ParamVectors : p.swarmSize = SwarmSizeLow

ObjectiveCall ==
  /\ pc = "objective"
  /\ \/ \E exc \in RunExceptions :
          call' = CallOf(ObjectiveParams, Raised(exc))
     \/ \E text \in Texts(MaxLen) :
          \E k \in 0..Len(text), rc \in ReturnCodes :
             call' = CallOf(ObjectiveParams, CompletedWith(rc, text, k))
  /\ launches' = launches + call'.result.launches
  /\ calls' = calls + 1
  /\ pc' = "called"
  /\ UNCHANGED <<jarExists, studyCreated, trials, best, console, errors,
                 output, file, exitCode>>

NextObjective == ObjectiveCall

SpecObjective == InitObjective /\ [][NextObjective]_vars

(***************************************************************************)
(* What the claims speak of, stated on positions of the text rather than   *)
(* by splitting, stripping and searching.                                  *)
(***************************************************************************)
Max(S) == CHOOSE x \in S : \A y \in S : y <= x
Min(S) == CHOOSE x \in S : \A y \in S : x <= y

\* the positions of text that hold neither white space nor a line break
InkAt(text) == {i \in 1..Len(text) : ~IsSpace(text[i])}

\* text without the white space and line breaks at its two ends
Trimmed(text) ==
  IF InkAt(text) = {} THEN <<>>
  ELSE SubSeq(text, Min(InkAt(text)), Max(InkAt(text)))

\* the last line of text that is not blank, trimmed (text has such a line)
LastNonEmptyLine(text) ==
  LET hi == Max(InkAt(text))
      breaks == {j \in 1..hi : text[j] = NewLine}
      start == IF breaks = {} THEN 1 ELSE Max(breaks) + 1
  IN SubSeq(text, Min({i \in InkAt(text) : i >= start}), hi)

\* the numeric tokens, by an automaton: 0 at the start, 1 after the sign, 2 in
\* the integer digits, 3 after the point, 4 in the fraction, 5 after the e,
\* 6 after the sign of the exponent, 7 in the exponent, 8 when no token
TokenStep(q, c) ==
  IF c \in DigitChars
  THEN (CASE q \in {0, 1, 2} -> 2 [] q \in {3, 4} -> 4 [] q \in {5, 6, 7} -> 7
          [] OTHER -> 8)
  ELSE IF c \in SignChars THEN (CASE q = 0 -> 1 [] q = 5 -> 6 [] OTHER -> 8)
  ELSE IF c = "." THEN (IF q \in {0, 1, 2} THEN 3 ELSE 8)
  ELSE IF c \in ExpChars THEN (IF q \in {2, 4} THEN 5 ELSE 8)
  ELSE 8

RECURSIVE TokenRun(_, _, _)
TokenRun(q, t, i) ==
  IF i > Len(t) THEN q ELSE TokenRun(TokenStep(q, t[i]), t, i + 1)

IsNumericToken(t) == TokenRun(0, t, 1) \in {2, 4, 7}

\* the places <<i, j>> of the numeric tokens of line
TokensOf(line) ==
  {ij \in (1..Len(line)) \X (1..Len(line)) :
     ij[1] <= ij[2] /\ IsNumericToken(SubSeq(line, ij[1], ij[2]))}

HasToken(line) == TokensOf(line) # {}

\* the first numeric token of line: the longest at the leftmost start
FirstToken(line) ==
  LET i == Min({ij[1] : ij \in TokensOf(line)})
  IN SubSeq(line, i, Max({ij[2] : ij \in {x \in TokensOf(line) : x[1] = i}}))

\* the text handed to extraction in the last call
RawText == call.run.stdout \o <<NewLine>> \o call.run.stderr

ProcessCompleted == pc = "called" /\ call.run.kind = "completed"

\* the last non-empty line of the raw text holds a numeric token
LastLineHasToken ==
  InkAt(RawText) # {} /\ HasToken(LastNonEmptyLine(RawText))

(***************************************************************************)
(* C2 as stated: whenever some line of the raw text holds a numeric token, *)
(* the fitness returned is the first token of the last non-empty line,     *)
(* parsed as a float.                                                      *)
(***************************************************************************)
C2_AnyLineWithToken ==
  (ProcessCompleted /\ HasToken(RawText)) =>
     /\ LastLineHasToken
     /\ call.result.kind = "return"
     /\ call.result.value = ParseFloat(FirstToken(LastNonEmptyLine(RawText)))

(***************************************************************************)
(* C2 amended: whenever the last non-empty line of the raw text holds a    *)
(* numeric token, the fitness returned is the first token of that line     *)
(* (the longest at the leftmost start), parsed as a float, and no parse    *)
(* warning is logged.                                                      *)
(***************************************************************************)
C2_LastLineToken ==
  (ProcessCompleted /\ LastLineHasToken) =>
     /\ call.result.kind = "return"
     /\ call.result.value = ParseFloat(FirstToken(LastNonEmptyLine(RawText)))
     /\ \A i \in 1..Len(call.result.log) :
          call.result.log[i].msg = "Jar exited with code"

\* a token with text around it on the last of several lines, another token
\* on an earlier line
C2_Witness ==
  /\ ProcessCompleted /\ LastLineHasToken
  /\ Len(Lines(RawText)) >= 2
  /\ HasToken(Lines(RawText)[1])
  /\ FirstToken(LastNonEmptyLine(RawText)) # LastNonEmptyLine(RawText)
  /\ IsFinite(call.result.value)
  /\ call.result.value # ParseFloat(FirstToken(Lines(RawText)[1]))

(***************************************************************************)
(* C3: when the raw text has no non-empty line, or its last non-empty line *)
(* holds no numeric token, the fitness returned is +infinity, whatever the *)
(* earlier lines hold.                                                     *)
(***************************************************************************)
C3_NoTokenGivesSentinel ==
  (ProcessCompleted /\ ~LastLineHasToken) =>
     /\ call.result.kind = "return"
     /\ call.result.value = Inf

\* an earlier line holds a token, the last non-empty line does not
C3_Witness ==
  /\ ProcessCompleted
  /\ HasToken(RawText)
  /\ ~LastLineHasToken
  /\ call.result.value = Inf

(***************************************************************************)
(* C7: a non-zero exit status does not cut the trial short: the output is  *)
(* parsed and the fitness returned is the one returned for the same stdout *)
(* and stderr with exit status 0; a warning with the exit status and the   *)
(* trimmed stderr is logged exactly when the status is not 0.              *)
(***************************************************************************)
C7_ExitCodeIgnored ==
  ProcessCompleted =>
     /\ call.result.kind = "return"
     /\ call.result.parsed
     /\ call.result.value =
          Objective(call.params,
                    Completed(0, call.run.stdout, call.run.stderr)).value
     /\ (call.run.returncode # 0) <=>
          \E i \in 1..Len(call.result.log) :
             /\ call.result.log[i].level = "WARNING"
             /\ call.result.log[i].msg = "Jar exited with code"
             /\ call.result.log[i].code = call.run.returncode
             /\ call.result.log[i].text = Trimmed(call.run.stderr)

\* a failed process whose output still gives a finite fitness
C7_Witness ==
  /\ ProcessCompleted
  /\ call.run.returncode # 0
  /\ call.run.stderr # <<>>
  /\ IsFinite(call.result.value)

(***************************************************************************)
(* C10: the raw text is stdout, then stderr.  The fitness returned is that *)
(* of the last non-empty line of stderr when stderr has a non-empty line,  *)
(* and that of the last non-empty line of stdout only when stderr has      *)
(* none; a line without a token gives +infinity and is the line named in   *)
(* the warning.                                                            *)
(***************************************************************************)
FitnessOfLine(line) ==
  IF HasToken(line) THEN ParseFloat(FirstToken(line)) ELSE Inf

LoggedLastLine(line) ==
  \E i \in 1..Len(call.result.log) :
     /\ call.result.log[i].msg = "No numeric value found"
     /\ call.result.log[i].text = line

C10_StderrAfterStdout ==
  ProcessCompleted =>
     IF InkAt(call.run.stderr) # {}
     THEN LET line == LastNonEmptyLine(call.run.stderr)
          IN /\ call.result.value = FitnessOfLine(line)
             /\ ~HasToken(line) => LoggedLastLine(line)
     ELSE IF InkAt(call.run.stdout) # {}
     THEN LET line == LastNonEmptyLine(call.run.stdout)
          IN /\ call.result.value = FitnessOfLine(line)
             /\ ~HasToken(line) => LoggedLastLine(line)
     ELSE call.result.value = Inf

\* the last line of stdout is a fitness, stderr holds a diagnostic line, and
\* the fitness of stdout is not what is returned
C10_Witness ==
  /\ ProcessCompleted
  /\ InkAt(call.run.stdout) # {}
  /\ IsFinite(FitnessOfLine(LastNonEmptyLine(call.run.stdout)))
  /\ InkAt(call.run.stderr) # {}
  /\ call.result.value # FitnessOfLine(LastNonEmptyLine(call.run.stdout))

(***************************************************************************)
(* The study at the end of a run.                                          *)
(***************************************************************************)
RunEnded == studyCreated /\ exitCode # -1

\* every trial of the study yielded +infinity
AllSentinel ==
  /\ trials # <<>>
  /\ \A i \in 1..Len(trials) :
       trials[i].state = "COMPLETE" /\ trials[i].value = Inf

\* the StudyResult of the study as it stands
StudyResult ==
  [best_params |-> trials[best].params,
   best_value |-> trials[best].value,
   best_trial_number |-> trials[best].number,
   direction |-> "MINIMIZE"]

(***************************************************************************)
(* C1 as stated: every call of objective returns, and returns a finite     *)
(* number or +infinity, whatever the process launch does.                  *)
(***************************************************************************)
C1_NeverRaises ==
  call.result.kind # "none" =>
     /\ call.result.kind = "return"
     /\ IsFinite(call.result.value) \/ call.result.value = Inf

(***************************************************************************)
(* C4 as stated: a run ends with exactly NTrials trial records, numbered   *)
(* 0..NTrials-1, each with a fitness, and a StudyResult whose fitness is   *)
(* at most every recorded fitness, the earliest trial winning a tie.       *)
(***************************************************************************)
C4_NTrialsAndMinimum ==
  RunEnded =>
     /\ Len(trials) = NTrials
     /\ \A i \in 1..Len(trials) :
          trials[i].number = i - 1 /\ trials[i].state = "COMPLETE"
     /\ output # NoOutput
     /\ \A i \in 1..Len(trials) :
          /\ ~FloatLess(trials[i].value, output.best_value)
          /\ trials[i].value = output.best_value
               => output.best_trial_number <= trials[i].number

(***************************************************************************)
(* C4 on the runs that reach the report: it holds there.                   *)
(***************************************************************************)
C4_WhenNoTrialRaises ==
  pc \in {"save", "final", "done"} =>
     /\ Len(trials) = NTrials
     /\ \A i \in 1..Len(trials) :
          trials[i].number = i - 1 /\ trials[i].state = "COMPLETE"
     /\ output = StudyResult
     /\ \A i \in 1..Len(trials) :
          /\ ~FloatLess(trials[i].value, output.best_value)
          /\ trials[i].value = output.best_value
               => output.best_trial_number <= trials[i].number

(***************************************************************************)
(* C5 as stated: a trial with fitness +infinity is the best trial only     *)
(* when every trial yielded +infinity; and when every trial did, the best  *)
(* value is +infinity and the finished run tells it apart from a genuine   *)
(* optimum: by its exit status, or by the +infinity best value in the      *)
(* result file (the console shows the best parameters alone).              *)
(***************************************************************************)
DegenerateReported ==
  \/ exitCode # 0
  \/ file.state = "written" /\ file.content.best_value = Inf

C5_SentinelBestReported ==
  /\ (best # 0 /\ trials[best].value = Inf) =>
        \A i \in 1..Len(trials) :
           trials[i].state = "COMPLETE" => trials[i].value = Inf
  /\ (pc = "done" /\ AllSentinel) =>
        output.best_value = Inf /\ DegenerateReported

(***************************************************************************)
(* C5 without the report: the selection and the best value hold.           *)
(***************************************************************************)
C5_SentinelBestOnly ==
  /\ (best # 0 /\ trials[best].value = Inf) =>
        \A i \in 1..Len(trials) :
           trials[i].state = "COMPLETE" => trials[i].value = Inf
  /\ (pc \in {"save", "final", "done"} /\ AllSentinel) =>
        output.best_value = Inf
  /\ (file.state = "written" /\ file.content.best_value = Inf) =>
        AllSentinel

(***************************************************************************)
(* C6 as stated: when the process times out or cannot be launched, the     *)
(* call logs a warning that holds the parameters of the trial and returns  *)
(* +infinity, with one launch and without parsing.                         *)
(***************************************************************************)
C6_LaunchFailureWarned ==
  call.run.kind \in {TimeoutExpired, FileNotFoundError, PermissionError} =>
     /\ call.result.kind = "return"
     /\ call.result.value = Inf
     /\ call.result.launches <= 1
     /\ ~call.result.parsed
     /\ \E i \in 1..Len(call.result.log) :
          /\ call.result.log[i].level = "WARNING"
          /\ call.result.log[i].params = call.params

(***************************************************************************)
(* C8: when the jar is not a file at startup, the script stops with a      *)
(* non-zero exit status before anything else: no study, no trial, no call  *)
(* of objective, no process launched, no result file.                      *)
(***************************************************************************)
C8_MissingJarAborts ==
  (~jarExists /\ pc # "start") =>
     /\ pc = "exited"
     /\ exitCode \notin {0, -1}
     /\ ~studyCreated
     /\ trials = <<>>
     /\ calls = 0
     /\ launches = 0
     /\ call = NoCall
     /\ file = FileAbsent
     /\ console = <<>>

C8_Witness ==
  /\ ~jarExists
  /\ pc = "exited"
  /\ exitCode = 1
  /\ errors = <<"JAR not found">>

(***************************************************************************)
(* C9: once the StudyResult is computed, a failed write of the result file *)
(* (open, write or close) is logged as an error and changes nothing else:  *)
(* the StudyResult stays as computed, the script goes on to its last print *)
(* of the best parameters and ends with exit status 0.                     *)
(***************************************************************************)
C9_WriteFailureHarmless ==
  (output # NoOutput /\ pc # "save") =>
     /\ pc \in {"final", "done"}
     /\ output = StudyResult
     /\ exitCode = IF pc = "done" THEN 0 ELSE -1
     /\ (file.state # "written") <=>
          errors = <<"Failed to write best results">>
     /\ pc = "done" =>
          console[Len(console)] = [text |-> "Best hyperparameters:",
                                   params |-> output.best_params]

\* the write was cut short and the run finished normally
C9_Witness ==
  /\ pc = "done"
  /\ file.state = "partial"
  /\ exitCode = 0
  /\ errors # <<>>

====
